---- MODULE Spec2Model ----
(***************************************************************************)
(* wxwarn: print_alert(lat, lon) of src/main.rs.                           *)
(*                                                                         *)
(* One run downloads the alerts archive, saves it to a temp file, unpacks  *)
(* it into the temp file's parent directory, reads current_all.shp (with   *)
(* its .dbf) into a vector of (polygon, record) pairs and then loops over  *)
(* the vector: for every polygon that contains the point it extracts three *)
(* character fields, requests the alert and prints it.  Every expect /     *)
(* panic! / unwrap is a fatal abort of the run.  The scratch directory     *)
(* (the system temp directory) outlives the run, so the model lets run     *)
(* follow run over the same directory.                                     *)
(***************************************************************************)
EXTENDS Integers, Sequences, FiniteSets, TLC

\* Bounds of the model.
GridMax == 2      \* query coordinates are 2*k for k in 0..GridMax
MaxRecs == 2      \* a shapefile holds at most MaxRecs (polygon, record) pairs

Coords == {2 * k : k \in 0..GridMax}

(***************************************************************************)
(* dBase records: a record maps the names of the fields it has to values;  *)
(* a value is Character(Option<String>) or another type (Numeric).  The    *)
(* Option is a sequence of length <= 1.                                    *)
(***************************************************************************)
CharSome(s) == [kind |-> "Character", val |-> <<s>>]
CharNone == [kind |-> "Character", val |-> <<>>]
Numeric == [kind |-> "Numeric", val |-> <<>>]

GoodRec(id) == [CAP_ID |-> CharSome(id), PROD_TYPE |-> CharSome("p"), ISSUANCE |-> CharSome("t")]

Recs ==
  { GoodRec("a"), GoodRec("b"),
    [PROD_TYPE |-> CharSome("p"), ISSUANCE |-> CharSome("t")],
    [CAP_ID |-> Numeric, PROD_TYPE |-> CharSome("p"), ISSUANCE |-> CharSome("t")],
    [CAP_ID |-> CharNone, PROD_TYPE |-> CharSome("p"), ISSUANCE |-> CharSome("t")],
    [CAP_ID |-> CharSome("a"), ISSUANCE |-> CharSome("t")],
    [CAP_ID |-> CharSome("b"), PROD_TYPE |-> CharSome("p"), ISSUANCE |-> CharNone] }

(***************************************************************************)
(* Shapefile polygons: a sequence of rings, each tagged Outer or Inner,    *)
(* each a closed sequence of points <<x, y>>.  The state names a polygon   *)
(* ("strip", "hole"); Rings gives the rings of the polygon of that name.   *)
(***************************************************************************)
Outer(pts) == [ring |-> "Outer", pts |-> pts]
Inner(pts) == [ring |-> "Inner", pts |-> pts]

\* Two outer rings: the strip -1 <= x <= 5, -1 <= y <= 2 and the square
\* 1 <= x <= 3, 3 <= y <= 5.
PolyStrip ==
  << Outer(<< <<-1, -1>>, <<-1, 2>>, <<5, 2>>, <<5, -1>>, <<-1, -1>> >>),
     Outer(<< <<1, 3>>, <<1, 5>>, <<3, 5>>, <<3, 3>>, <<1, 3>> >>) >>

\* The square -1 <= x, y <= 5 with a diamond-shaped hole around (2, 2).
PolyHole ==
  << Outer(<< <<-1, -1>>, <<-1, 5>>, <<5, 5>>, <<5, -1>>, <<-1, -1>> >>),
     Inner(<< <<2, 0>>, <<4, 2>>, <<2, 4>>, <<0, 2>>, <<2, 0>> >>) >>

Polys == {"strip", "hole"}

Rings(polygon) == IF polygon = "strip" THEN PolyStrip ELSE PolyHole

(***************************************************************************)
(* geo: conversion of a shapefile polygon to a MultiPolygon, and           *)
(* MultiPolygon::contains(Point).                                          *)
(***************************************************************************)
RECURSIVE IntoMultiPolygonFrom(_, _, _, _)
\* rings i.. of the polygon; acc: polygons finished; last: the polygon being
\* built, as a sequence of length <= 1.
IntoMultiPolygonFrom(rings, i, acc, last) ==
  IF i > Len(rings) THEN acc \o last
  ELSE IF rings[i].ring = "Outer"
       THEN IntoMultiPolygonFrom(rings, i + 1, acc \o last,
              << [exterior |-> rings[i].pts, interiors |-> <<>>] >>)
       ELSE IF last # <<>>
            THEN IntoMultiPolygonFrom(rings, i + 1, acc,
                   << [last[1] EXCEPT !.interiors = Append(@, rings[i].pts)] >>)
            ELSE IntoMultiPolygonFrom(rings, i + 1,
                   Append(acc, [exterior |-> rings[i].pts, interiors |-> <<>>]), last)

IntoMultiPolygon(polygon) == IntoMultiPolygonFrom(Rings(polygon), 1, <<>>, <<>>)

\* orient2d: > 0 counter-clockwise, < 0 clockwise, 0 collinear.
Orient2d(p, q, r) == (q[1] - p[1]) * (r[2] - p[2]) - (q[2] - p[2]) * (r[1] - p[1])

ValueInBetween(v, a, b) == IF a <= b THEN a <= v /\ v <= b ELSE b <= v /\ v <= a

\* The line start -> end passes through c (the two OnBoundary returns).
LineOnBoundary(start, end, c) ==
  /\ Orient2d(start, end, c) = 0
  /\ ValueInBetween(c[1], start[1], end[1])
  /\ \/ start[2] <= c[2] /\ end[2] >= c[2]
     \/ start[2] > c[2] /\ end[2] <= c[2]

\* The contribution of the line start -> end to the winding number of the
\* ring around c.
LineWinding(start, end, c) ==
  LET o == Orient2d(start, end, c) IN
  IF start[2] <= c[2]
  THEN IF end[2] >= c[2] /\ o > 0 /\ end[2] # c[2] THEN 1 ELSE 0
  ELSE IF end[2] <= c[2] /\ o < 0 THEN -1 ELSE 0

RECURSIVE SumWinding(_, _, _)
SumWinding(ring, c, i) ==
  IF i >= Len(ring) THEN 0
  ELSE LineWinding(ring[i], ring[i + 1], c) + SumWinding(ring, c, i + 1)

\* coord_pos_relative_to_ring: the winding number, with a return of
\* OnBoundary at the first line that passes through c.
CoordPosRelativeToRing(c, ring) ==
  IF ring = <<>> THEN "Outside"
  ELSE IF Len(ring) = 1 THEN (IF c = ring[1] THEN "OnBoundary" ELSE "Outside")
  ELSE IF \E i \in 1..(Len(ring) - 1) : LineOnBoundary(ring[i], ring[i + 1], c)
       THEN "OnBoundary"
  ELSE IF SumWinding(ring, c, 1) = 0 THEN "Outside" ELSE "Inside"

RECURSIVE HolesPosition(_, _, _)
HolesPosition(c, holes, i) ==
  IF i > Len(holes) THEN "Inside"
  ELSE LET p == CoordPosRelativeToRing(c, holes[i]) IN
       IF p = "Inside" THEN "Outside"
       ELSE IF p = "OnBoundary" THEN "OnBoundary"
       ELSE HolesPosition(c, holes, i + 1)

\* Polygon::coordinate_position
CoordinatePosition(poly, c) ==
  LET e == CoordPosRelativeToRing(c, poly.exterior) IN
  IF e = "Inside" THEN HolesPosition(c, poly.interiors, 1) ELSE e

\* MultiPolygon::contains(Point): some member polygon has the point in its interior.
Contains(mp, c) == \E i \in 1..Len(mp) : CoordinatePosition(mp[i], c) = "Inside"

\* Mutant of QueryPoint: the point built as (x: lat, y: lon).
QueryPointSwapped(la, lo) == <<la, lo>>

\* geo::point!(x: lon, y: lat)
QueryPoint(la, lo) == <<lo, la>>

PolygonContains(polygon, la, lo) == Contains(IntoMultiPolygon(polygon), QueryPoint(la, lo))

(***************************************************************************)
(* Inputs of a run: the archive the server publishes and the answers of    *)
(* the alerts API.                                                         *)
(***************************************************************************)
Entries == [polygon : Polys, record : Recs]

\* The shapefiles of at most MaxRecs (polygon, record) pairs, in storage order.
Snapshots == UNION {[1..n -> Entries] : n \in 0..MaxRecs}

ShpOf(s) == [i \in 1..Len(s) |-> s[i].polygon]
DbfOf(s) == [i \in 1..Len(s) |-> s[i].record]

\* A tar.gz archive: the content of its current_all.shp and current_all.dbf
\* entries, each an Option (an archive may lack an entry).
Archives ==
  { [shp |-> IF hs THEN <<ShpOf(s)>> ELSE <<>>, dbf |-> IF hd THEN <<DbfOf(s)>> ELSE <<>>] :
      s \in Snapshots, hs \in BOOLEAN, hd \in BOOLEAN }

Line(kind, id) == [line |-> kind, of |-> id]
Separator == Line("===============================", "")
ErrorLine == Line("ERROR", "")

\* The four println! of a decoded alert, lines 248-251.
AlertLines(id) ==
  << Line("headline", id), Line("description", id), Line("instruction", id), Line("areaDesc", id) >>

Stages == <<"send", "save", "unpack", "read">>

VARIABLES
  lat, lon,     \* the arguments of print_alert
  pc,           \* where the process is
  fs,           \* the temp directory: the content of the temp file (an Option) and
                \* whether current_all.shp / .dbf are there, and written by which run
  polygons,     \* the vector read from the shapefile
  idx,          \* how many of its elements the for loop has consumed
  times,        \* the counter of line 204
  out,          \* standard output, line by line
  requests,     \* the alert identifiers requested from the API, in order
  matches,      \* history: one entry per element that entered the if of line 212
  completed,    \* history: the stages that succeeded, in order
  src,          \* history: whose files the shapefile reader read
  fatal         \* history: what the run aborted on

vars == <<lat, lon, pc, fs, polygons, idx, times, out, requests, matches,
          completed, src, fatal>>

runVars == <<lat, lon>>
loopVars == <<polygons, idx, times, out, requests, matches>>

NoSrc == [shp |-> "none", dbf |-> "none"]

\* A process that has just started: nothing parsed, nothing fetched.
Fresh ==
  /\ pc = "main"
  /\ lat = 0
  /\ lon = 0
  /\ polygons = <<>>
  /\ idx = 0
  /\ times = 0
  /\ out = <<>>
  /\ requests = <<>>
  /\ matches = <<>>
  /\ completed = <<>>
  /\ src = NoSrc
  /\ fatal = "none"

Init ==
  /\ fs = [tmp |-> <<>>, shp |-> "absent", dbf |-> "absent"]
  /\ Fresh

\* A panic unwinds print_alert: the NamedTempFile, if it exists, is dropped and
\* its file removed.  Nothing else is removed.
Abort(cause) ==
  /\ pc' = "aborted"
  /\ fatal' = cause
  /\ fs' = [fs EXCEPT !.tmp = <<>>]

\* main, lines 264-269: the arguments are parsed and print_alert is called
ParseArgs ==
  /\ pc = "main"
  /\ lat' \in Coords
  /\ lon' \in Coords
  /\ pc' = "start"
  /\ UNCHANGED <<loopVars, fs, completed, src, fatal>>

\* lines 182-185: the response arrives, its body still to be read
SendOk ==
  /\ pc = "start"
  /\ pc' = "fetched"
  /\ completed' = Append(completed, "send")
  /\ UNCHANGED <<runVars, loopVars, fs, src, fatal>>

SendFail ==
  /\ pc = "start"
  /\ Abort("send")
  /\ UNCHANGED <<runVars, loopVars, completed, src>>

\* lines 188-189: the temp file is created and io::copy reads the body into it
SaveOk ==
  /\ pc = "fetched"
  /\ \E body \in Archives : fs' = [fs EXCEPT !.tmp = <<body>>]
  /\ pc' = "saved"
  /\ completed' = Append(completed, "save")
  /\ UNCHANGED <<runVars, loopVars, src, fatal>>

SaveFail ==
  /\ pc = "fetched"
  /\ Abort("save")
  /\ UNCHANGED <<runVars, loopVars, completed, src>>

\* The archive in the temp file, while the file exists.
TempFile == fs.tmp[1]

\* Archive::unpack writes an entry over whatever file has its name.
Unpacked(dir, written) ==
  [dir EXCEPT !.shp = IF "shp" \in written THEN "current" ELSE @,
              !.dbf = IF "dbf" \in written THEN "current" ELSE @]

EntriesOf(a) == {c \in {"shp", "dbf"} : a[c] # <<>>}

\* lines 192-196
UnpackOk ==
  /\ pc = "saved"
  /\ fs' = Unpacked(fs, EntriesOf(TempFile))
  /\ pc' = "unpacked"
  /\ completed' = Append(completed, "unpack")
  /\ UNCHANGED <<runVars, loopVars, src, fatal>>

\* The open, the gzip stream or the tar stream fails, after some entries
\* have been written.
UnpackFail ==
  /\ pc = "saved"
  /\ \E written \in SUBSET EntriesOf(TempFile) :
       /\ pc' = "aborted"
       /\ fatal' = "unpack"
       /\ fs' = [Unpacked(fs, written) EXCEPT !.tmp = <<>>]
  /\ UNCHANGED <<runVars, loopVars, completed, src>>

\* The shapes and the records are read pairwise until either file ends.
Zip(shapes, records) ==
  LET n == IF Len(shapes) <= Len(records) THEN Len(shapes) ELSE Len(records) IN
  [i \in 1..n |-> [polygon |-> shapes[i], record |-> records[i]]]

\* The content of a file of the scratch directory: what this run unpacked, or
\* whatever an earlier run left there.
ShpContents == IF fs.shp = "current" THEN {TempFile.shp[1]} ELSE {ShpOf(s) : s \in Snapshots}
DbfContents == IF fs.dbf = "current" THEN {TempFile.dbf[1]} ELSE {DbfOf(s) : s \in Snapshots}

\* lines 199-202
ReadOk ==
  /\ pc = "unpacked"
  /\ fs.shp # "absent"
  /\ fs.dbf # "absent"
  /\ \E shapes \in ShpContents, records \in DbfContents :
       polygons' = Zip(shapes, records)
  /\ src' = [shp |-> fs.shp, dbf |-> fs.dbf]
  /\ pc' = "loop"
  /\ completed' = Append(completed, "read")
  /\ UNCHANGED <<runVars, fs, idx, times, out, requests, matches, fatal>>

\* Mutant of ReadFail: a failed read goes on with the pairs read so far.
ReadFailPartial ==
  /\ pc = "unpacked"
  /\ fs.shp # "absent"
  /\ fs.dbf # "absent"
  /\ \E shapes \in ShpContents, records \in DbfContents :
       \E n \in 0..Len(Zip(shapes, records)) :
         polygons' = SubSeq(Zip(shapes, records), 1, n)
  /\ src' = [shp |-> fs.shp, dbf |-> fs.dbf]
  /\ pc' = "loop"
  /\ UNCHANGED <<runVars, fs, idx, times, out, requests, matches, completed, fatal>>

\* A file is missing, or is not a polygon shapefile, or cannot be read to its end.
ReadFail ==
  /\ pc = "unpacked"
  /\ Abort("read")
  /\ UNCHANGED <<runVars, loopVars, completed, src>>

(***************************************************************************)
(* The body of the for loop, lines 208-258, for the element idx + 1.       *)
(***************************************************************************)
Current == polygons[idx + 1]

\* The three match expressions of lines 216-233: Some(Character(Some(x))).
FieldOk(record, name) ==
  /\ name \in DOMAIN record
  /\ record[name].kind = "Character"
  /\ record[name].val # <<>>

\* Mutant of FieldsOk: only CAP_ID is looked at.
FieldsOkCapIdOnly(record) == FieldOk(record, "CAP_ID")

FieldsOk(record) ==
  /\ FieldOk(record, "CAP_ID")
  /\ FieldOk(record, "PROD_TYPE")
  /\ FieldOk(record, "ISSUANCE")

CapId(record) == record["CAP_ID"].val[1]

\* Mutant of PrintsSeparator: no separator before the first result.
PrintsSeparatorFromSecond(t) == t > 1

\* line 241
PrintsSeparator(t) == t >= 1

SeparatorLines(t) == IF PrintsSeparator(t) THEN <<Separator>> ELSE <<>>

\* What is recorded of an element that matched: its position, what the request
\* came to (Ok with a body that decodes into an Alert, "alert"; Ok with a body
\* that does not, "undecodable"; Err, "transport"; not sent, "none") and what
\* the loop body did.
Match(resp, res) == [pos |-> idx + 1, resp |-> resp, res |-> res]

\* line 212 is false
NoMatch ==
  /\ pc = "loop"
  /\ idx < Len(polygons)
  /\ ~PolygonContains(Current.polygon, lat, lon)
  /\ idx' = idx + 1
  /\ UNCHANGED <<runVars, pc, fs, polygons, times, out, requests, matches,
                 completed, src, fatal>>

\* Mutant of SchemaAbort: a record without the fields is skipped.
SchemaSkip ==
  /\ pc = "loop"
  /\ idx < Len(polygons)
  /\ PolygonContains(Current.polygon, lat, lon)
  /\ ~FieldsOk(Current.record)
  /\ times' = times + 1
  /\ matches' = Append(matches, Match("none", "schema"))
  /\ idx' = idx + 1
  /\ UNCHANGED <<runVars, pc, fs, polygons, out, requests, completed, src, fatal>>

\* one of the panic! of lines 216-233
SchemaAbort ==
  /\ pc = "loop"
  /\ idx < Len(polygons)
  /\ PolygonContains(Current.polygon, lat, lon)
  /\ ~FieldsOk(Current.record)
  /\ times' = times + 1
  /\ matches' = Append(matches, Match("none", "schema"))
  /\ Abort("schema")
  /\ UNCHANGED <<runVars, polygons, idx, out, requests, completed, src>>

\* lines 235-253, the request answered by a body that decodes
AlertPrinted ==
  /\ pc = "loop"
  /\ idx < Len(polygons)
  /\ PolygonContains(Current.polygon, lat, lon)
  /\ FieldsOk(Current.record)
  /\ times' = times + 1
  /\ requests' = Append(requests, CapId(Current.record))
  /\ out' = out \o SeparatorLines(times') \o AlertLines(CapId(Current.record))
  /\ matches' = Append(matches, Match("alert", "alert"))
  /\ idx' = idx + 1
  /\ UNCHANGED <<runVars, pc, fs, polygons, completed, src, fatal>>

\* lines 235-247, the request answered by a body that does not decode: unwrap
DecodeAbort ==
  /\ pc = "loop"
  /\ idx < Len(polygons)
  /\ PolygonContains(Current.polygon, lat, lon)
  /\ FieldsOk(Current.record)
  /\ times' = times + 1
  /\ requests' = Append(requests, CapId(Current.record))
  /\ out' = out \o SeparatorLines(times')
  /\ matches' = Append(matches, Match("undecodable", "json"))
  /\ Abort("json")
  /\ UNCHANGED <<runVars, polygons, idx, completed, src>>

\* Mutant of ErrorPrinted: a failed request is fatal.
ErrorAborts ==
  /\ pc = "loop"
  /\ idx < Len(polygons)
  /\ PolygonContains(Current.polygon, lat, lon)
  /\ FieldsOk(Current.record)
  /\ times' = times + 1
  /\ requests' = Append(requests, CapId(Current.record))
  /\ out' = out \o SeparatorLines(times')
  /\ matches' = Append(matches, Match("transport", "error"))
  /\ Abort("transport")
  /\ UNCHANGED <<runVars, polygons, idx, completed, src>>

\* lines 235-253, the request fails: Err(_)
ErrorPrinted ==
  /\ pc = "loop"
  /\ idx < Len(polygons)
  /\ PolygonContains(Current.polygon, lat, lon)
  /\ FieldsOk(Current.record)
  /\ times' = times + 1
  /\ requests' = Append(requests, CapId(Current.record))
  /\ out' = out \o SeparatorLines(times') \o <<ErrorLine>>
  /\ matches' = Append(matches, Match("transport", "error"))
  /\ idx' = idx + 1
  /\ UNCHANGED <<runVars, pc, fs, polygons, completed, src, fatal>>

\* The loop ends and print_alert returns: the NamedTempFile is dropped.
Return ==
  /\ pc = "loop"
  /\ idx = Len(polygons)
  /\ pc' = "done"
  /\ fs' = [fs EXCEPT !.tmp = <<>>]
  /\ UNCHANGED <<runVars, loopVars, completed, src, fatal>>

\* What a run finds of the files an earlier run left in the directory.
Aged(f) == IF f = "absent" THEN "absent" ELSE "stale"

\* The program is run again, over the same temp directory.
StartRun ==
  /\ pc \in {"done", "aborted"}
  /\ lat' = 0
  /\ lon' = 0
  /\ fs' = [tmp |-> fs.tmp, shp |-> Aged(fs.shp), dbf |-> Aged(fs.dbf)]
  /\ pc' = "main"
  /\ polygons' = <<>>
  /\ idx' = 0
  /\ times' = 0
  /\ out' = <<>>
  /\ requests' = <<>>
  /\ matches' = <<>>
  /\ completed' = <<>>
  /\ src' = NoSrc
  /\ fatal' = "none"

Next ==
  \/ ParseArgs
  \/ SendOk \/ SendFail
  \/ SaveOk \/ SaveFail
  \/ UnpackOk \/ UnpackFail
  \/ ReadOk \/ ReadFail
  \/ NoMatch \/ SchemaAbort \/ AlertPrinted \/ DecodeAbort \/ ErrorPrinted
  \/ Return
  \/ StartRun

Spec == Init /\ [][Next]_vars

(***************************************************************************)
(* Vocabulary of the properties.                                           *)
(***************************************************************************)
Q == <<lon, lat>>     \* the query point as (x = longitude, y = latitude)

\* Point-in-polygon by the even-odd rule over all the rings of a shapefile
\* polygon, independent of the ring roles and of the winding number.
OnSegment(a, b, p) ==
  /\ (b[1] - a[1]) * (p[2] - a[2]) = (b[2] - a[2]) * (p[1] - a[1])
  /\ ValueInBetween(p[1], a[1], b[1])
  /\ ValueInBetween(p[2], a[2], b[2])

\* The ray from p towards +x crosses the edge a -> b.
RayCrosses(a, b, p) ==
  /\ (a[2] > p[2]) # (b[2] > p[2])
  /\ IF b[2] > a[2]
     THEN (p[1] - a[1]) * (b[2] - a[2]) < (p[2] - a[2]) * (b[1] - a[1])
     ELSE (p[1] - a[1]) * (b[2] - a[2]) > (p[2] - a[2]) * (b[1] - a[1])

\* The edges <<a, b>> of all the rings of a polygon.
EdgesOf(polygon) ==
  LET rs == Rings(polygon) IN
  UNION {{<<rs[r].pts[i], rs[r].pts[i + 1]>> : i \in 1..(Len(rs[r].pts) - 1)} : r \in 1..Len(rs)}

OnBoundaryOf(polygon, p) == \E e \in EdgesOf(polygon) : OnSegment(e[1], e[2], p)

InteriorOf(polygon, p) ==
  /\ ~OnBoundaryOf(polygon, p)
  /\ Cardinality({e \in EdgesOf(polygon) : RayCrosses(e[1], e[2], p)}) % 2 = 1

InteriorOrBoundaryOf(polygon, p) == InteriorOf(polygon, p) \/ OnBoundaryOf(polygon, p)

\* The elements of the vector the loop has examined: those it has consumed and
\* the one it aborted on.
Examined == IF fatal \in {"schema", "json"} THEN idx + 1 ELSE idx

\* The positions 1..n of the vector whose polygon satisfies In, in storage order.
PositionsWhere(In(_), n) ==
  SelectSeq([j \in 1..n |-> j], LAMBDA j : In(polygons[j].polygon))

\* The test of line 212 on the arguments of the run.
Matched(polygon) == PolygonContains(polygon, lat, lon)

\* Standard output cut at its separator lines: block i starts at the i-th
\* separator and ends before the next.
SeparatorAt == SelectSeq([k \in 1..Len(out) |-> k], LAMBDA k : out[k] = Separator)

Block(i) ==
  IF i > Len(SeparatorAt) THEN <<>>
  ELSE SubSeq(out, SeparatorAt[i],
              IF i < Len(SeparatorAt) THEN SeparatorAt[i + 1] - 1 ELSE Len(out))

\* The value of a field that is present and holds a non-null character value.
IsCharacterValue(record, name) ==
  /\ name \in DOMAIN record
  /\ record[name].kind = "Character"
  /\ Len(record[name].val) = 1

\* The record of the element a match entry is about.
RecordOf(m) == polygons[m.pos].record

RunEnded == pc \in {"done", "aborted"}
Decoded == completed = Stages

(***************************************************************************)
(* C1.  A run that returns normally, for a coordinate contained in N       *)
(* polygons, has printed exactly N separator lines and N result blocks,    *)
(* each separator immediately before its block (the first included), the   *)
(* blocks in match order, each the four alert fields of its match or the   *)
(* error notice, and nothing after the last block; for N = 0 nothing.      *)
(***************************************************************************)
ContainedIn == PositionsWhere(Matched, Len(polygons))

RECURSIVE SeparatedBlocks(_, _)
\* o is, for each position of ps in turn, a separator and then the block of
\* the record at that position.
SeparatedBlocks(o, ps) ==
  IF ps = <<>> THEN o = <<>>
  ELSE /\ o # <<>>
       /\ o[1] = Separator
       /\ \/ /\ Len(o) >= 2
             /\ o[2] = ErrorLine
             /\ SeparatedBlocks(SubSeq(o, 3, Len(o)), Tail(ps))
          \/ /\ Len(o) >= 5
             /\ IsCharacterValue(polygons[ps[1]].record, "CAP_ID")
             /\ SubSeq(o, 2, 5) = AlertLines(polygons[ps[1]].record.CAP_ID.val[1])
             /\ SeparatedBlocks(SubSeq(o, 6, Len(o)), Tail(ps))

C1_OutputOfCompletedRun ==
  pc = "done" =>
    /\ Len(SeparatorAt) = Len(ContainedIn)
    /\ SeparatedBlocks(out, ContainedIn)
    /\ (ContainedIn = <<>> => out = <<>>)

C1_Witness ==
  /\ pc = "done"
  /\ Len(ContainedIn) = 2
  /\ Len(out) = 7
  /\ out[2] = ErrorLine
  /\ out[4] = Line("headline", "b")

(***************************************************************************)
(* C2.  A response body that does not decode into an Alert has the outcome *)
(* of a transport failure: the error notice is printed for that match and  *)
(* the run goes on to the next match instead of aborting.                  *)
(***************************************************************************)
C2_UndecodableBodyPrintsError ==
  \A i \in 1..Len(matches) :
    matches[i].resp = "undecodable" =>
      /\ Block(i) = <<Separator, ErrorLine>>
      /\ fatal = "none"

(***************************************************************************)
(* C3.  A matched record without a character CAP_ID field.                 *)
(***************************************************************************)
CapIdMissingOrMistyped(record) ==
  "CAP_ID" \notin DOMAIN record \/ record["CAP_ID"].kind # "Character"

\* The positions of the vector whose polygon contains the point and whose
\* record has no character CAP_ID.
BadCapPositions ==
  {j \in 1..Len(polygons) :
     Matched(polygons[j].polygon) /\ CapIdMissingOrMistyped(polygons[j].record)}

Least(S) == CHOOSE j \in S : \A k \in S : j <= k

\* C3 as stated: with such a record anywhere in the vector, the run aborts
\* and has printed nothing at all, whatever matches precede the record.
C3_NoOutputAtAll ==
  BadCapPositions # {} => (pc # "done" /\ out = <<>>)

\* C3 as amended: the run aborts no later than at the first such record and
\* nothing is requested or printed for that record or any element after it;
\* what it has printed are the separators and blocks of the matches before it.
C3_NoOutputFromBadRecordOn ==
  LET bad == BadCapPositions IN
  bad # {} =>
    LET first == Least(bad)
        before == PositionsWhere(Matched, first - 1)
    IN
    /\ pc # "done"
    /\ idx < first
    /\ \A i \in 1..Len(matches) : matches[i].pos <= first
    /\ Len(SeparatorAt) <= Len(before)
    /\ Len(requests) <= Len(before)
    /\ \A i \in 1..Len(matches) :
         matches[i].pos = first =>
           /\ Block(i) = <<>>
           /\ pc = "aborted"
           /\ fatal = "schema"

C3_Witness ==
  /\ fatal = "schema"
  /\ BadCapPositions # {}
  /\ matches[Len(matches)].pos = Least(BadCapPositions)
  /\ Len(matches) = 2
  /\ out = <<Separator>> \o AlertLines("a")

(***************************************************************************)
(* C4.  A transport failure of the request of match k prints the error     *)
(* notice for match k and the loop goes on: the run does not abort on it,  *)
(* and every later element that the loop reaches and that matches still    *)
(* gets its own separator and result block, in match order.                *)
(***************************************************************************)
IsResultBlock(b, record) ==
  \/ b = <<Separator, ErrorLine>>
  \/ /\ IsCharacterValue(record, "CAP_ID")
     /\ b = <<Separator>> \o AlertLines(record.CAP_ID.val[1])

C4_TransportFailureIsRecovered ==
  \A k \in 1..Len(matches) :
    matches[k].resp = "transport" =>
      /\ Block(k) = <<Separator, ErrorLine>>
      /\ idx >= matches[k].pos
      /\ (k = Len(matches) => pc # "aborted")
      /\ \A j \in (matches[k].pos + 1)..idx :
           Matched(polygons[j].polygon) =>
             \E i \in (k + 1)..Len(matches) :
               /\ matches[i].pos = j
               /\ IsResultBlock(Block(i), polygons[j].record)
      /\ \A i \in 1..Len(matches) : i > k => matches[i].pos > matches[k].pos

C4_Witness ==
  /\ pc = "done"
  /\ Len(matches) = 2
  /\ matches[1].resp = "transport"
  /\ matches[2].resp = "alert"
  /\ out = <<Separator, ErrorLine, Separator>> \o AlertLines("b")

(***************************************************************************)
(* C5.  When the run aborts while it processes match k, nothing has been   *)
(* printed for match k: neither a separator nor an alert field.            *)
(***************************************************************************)
C5_NothingPrintedForAbortedMatch ==
  (pc = "aborted" /\ fatal \in {"schema", "json"}) =>
    /\ Block(Len(matches)) = <<>>
    /\ Len(SeparatorAt) = Len(matches) - 1

(***************************************************************************)
(* C6.  The records handed to the resolver.                                *)
(***************************************************************************)
\* The records of matches are, in storage order, the records of the examined
\* elements whose polygon satisfies In, and nothing is requested or printed
\* but for them.
HandedAre(In(_)) ==
  LET ps == PositionsWhere(In, Examined) IN
  /\ Len(matches) = Len(ps)
  /\ \A i \in 1..Len(ps) :
       /\ matches[i].pos = ps[i]
  /\ Len(requests) <= Len(ps)
  /\ \A i \in 1..Len(requests) :
       /\ IsCharacterValue(polygons[ps[i]].record, "CAP_ID")
       /\ requests[i] = polygons[ps[i]].record.CAP_ID.val[1]
  /\ Len(SeparatorAt) <= Len(ps)
  /\ \A i \in 1..Len(SeparatorAt) : IsResultBlock(Block(i), polygons[ps[i]].record)
                                      \/ (Block(i) = <<Separator>> /\ fatal = "json")

InOrOn(polygon) == InteriorOrBoundaryOf(polygon, Q)
Inside(polygon) == InteriorOf(polygon, Q)

\* C6 as stated: contained means in the interior or on the boundary.
C6_HandedAreContainedOrOnBoundary == HandedAre(InOrOn)

\* C6 as amended: contained means in the interior; a point on the boundary
\* of a polygon does not match it.
C6_HandedAreInterior == HandedAre(Inside)

C6_Witness ==
  /\ pc = "done"
  /\ Len(polygons) = 2
  /\ OnBoundaryOf(polygons[1].polygon, Q)
  /\ Inside(polygons[2].polygon)
  /\ Len(matches) = 1
  /\ matches[1].pos = 2
  /\ lat # lon

(***************************************************************************)
(* C7.  Send, save and unpack, read, loop, in this order: nothing is       *)
(* tested, requested or printed before the archive has been fetched,       *)
(* unpacked and the whole shapefile read, and a failure of one of these    *)
(* stages aborts the run with no output and no partial vector.             *)
(***************************************************************************)
C7_StagesBeforeLoop ==
  /\ completed = SubSeq(Stages, 1, Len(completed))
  /\ (idx > 0 \/ matches # <<>> \/ requests # <<>> \/ out # <<>> \/ polygons # <<>>
        \/ pc \in {"loop", "done"}) => Decoded
  /\ fatal \in {"send", "save", "unpack", "read"} =>
       /\ pc = "aborted"
       /\ ~Decoded
  /\ (pc = "loop" /\ src = [shp |-> "current", dbf |-> "current"]) =>
       polygons = Zip(TempFile.shp[1], TempFile.dbf[1])

C7_Witness ==
  /\ fatal = "read"
  /\ fs.shp = "current"
  /\ fs.dbf = "current"
  /\ pc = "aborted"
  /\ out = <<>>
  /\ requests = <<>>

(***************************************************************************)
(* C8.  After a run has ended, normally or by an abort, nothing it wrote   *)
(* to the file system remains: neither the temp file of the archive nor a  *)
(* file unpacked from it.                                                  *)
(***************************************************************************)
C8_NothingRemains ==
  RunEnded => (fs.tmp = <<>> /\ fs.shp # "current" /\ fs.dbf # "current")

(***************************************************************************)
(* C9.  A matched record is resolved only if CAP_ID, PROD_TYPE and         *)
(* ISSUANCE are all present with a non-null character value; otherwise the *)
(* run aborts before the request of that match is sent.                    *)
(***************************************************************************)
AllThreeCharacter(record) ==
  \A f \in {"CAP_ID", "PROD_TYPE", "ISSUANCE"} : IsCharacterValue(record, f)

Resolved == SelectSeq(matches, LAMBDA m : m.res # "schema")

C9_ResolvedOnlyWithThreeFields ==
  /\ \A i \in 1..Len(matches) :
       /\ (matches[i].res # "schema") <=> AllThreeCharacter(RecordOf(matches[i]))
       /\ matches[i].res = "schema" =>
            /\ i = Len(matches)
            /\ pc = "aborted"
            /\ fatal = "schema"
            /\ Block(i) = <<>>
  /\ Len(requests) = Len(Resolved)
  /\ \A i \in 1..Len(requests) : requests[i] = RecordOf(Resolved[i]).CAP_ID.val[1]

C9_Witness ==
  /\ fatal = "schema"
  /\ Len(matches) = 2
  /\ IsCharacterValue(RecordOf(matches[2]), "CAP_ID")
  /\ "PROD_TYPE" \notin DOMAIN RecordOf(matches[2])
  /\ requests = <<"b">>

(***************************************************************************)
(* C10.  The polygons and records a run examines are those of the archive  *)
(* this run downloaded: a current_all.* file left by an earlier run is     *)
(* never read in its place, and a run whose archive lacks a file fails.    *)
(***************************************************************************)
C10_OnlyTheArchiveOfThisRun ==
  pc = "loop" =>
    /\ TempFile.shp # <<>>
    /\ TempFile.dbf # <<>>
    /\ polygons = Zip(TempFile.shp[1], TempFile.dbf[1])
====
